---------------------------- MODULE Spec2Model ----------------------------
(***************************************************************************)
(* Model of the rate-limited, resumable media-ingestion pipeline of        *)
(* src/shorts-to-analysis:                                                 *)
(*   - RateLimitedAPIKeyPool (pipeline_parallel.py)    SpecPool, FairPool  *)
(*   - the Ledger file and load_completed_urls                             *)
(*   - one run of pipeline_simple.main or of                               *)
(*     pipeline_parallel.main                          Spec                *)
(*   - pipeline_simple.main under fair scheduling      FairSimple          *)
(*   - successive runs of pipeline_simple.main, killed                     *)
(*     at any point                                    SpecCrash           *)
(*   - extract_keyframes (keyframe_extractor.py)       SpecKeyframes       *)
(*   - retry_failed.main after a run                   SpecRetry           *)
(*   - pipeline_simple.main over distinct URLs         SpecSimple          *)
(*   - pipeline_simple.main with failing Ledger writes SpecWriteFail       *)
(*   - pipeline.main, one video after the other        SpecSequential      *)
(*   - a run with a download that never returns        FairStuck           *)
(*   - pipeline_simple.main with more WorkItems than                       *)
(*     analysis workers                                SpecSaturated       *)
(*   - one analysis, line by line                      SpecWork            *)
(*   - the key bookkeeping of pipeline.main            SpecRate            *)
(* Time is counted in ticks; a key's window of 60 seconds is Window ticks. *)
(* The Ledger writes of Spec and FairSimple succeed; a run that dies in a  *)
(* write is part of SpecCrash.                                             *)
(***************************************************************************)
EXTENDS Integers, Sequences, FiniteSets, TLC

(***************************************************************************)
(* Bounds of the model.                                                    *)
(***************************************************************************)
\* number of API keys handed to RateLimitedAPIKeyPool (len(api_keys))
NumKeys == 2
\* number of threads that call get_key concurrently
NumThreads == 2
\* length of a key's window in clock ticks: the 60 seconds of
\* pipeline_parallel.py:28 and :41, at a granularity of Window ticks
Window == 2
\* calls_per_minute of the pool (the call sites pass 10; scaled down)
CallsPerMinute == 2

\* longest input list (rows of massive_global_shorts.csv)
MaxInput == 2
\* longest list of URLs a run of the scheduler works through
MaxItems == 5
\* longest input list of the runs that may be killed
MaxCrashInput == 2
\* number of videos pipeline.main is given when its key bookkeeping is followed
MaxVideos == 3
\* number of analyses followed step by step
MaxAnalyses == 2
\* number of successive runs of main over the same input
MaxRuns == 3

\* extract_keyframes: longest video, largest num_frames, highest frame score
MaxFrames == 5
MaxKeyframes == 4
MaxScore == 2

Keys == 0 .. (NumKeys - 1)
Threads == 1 .. NumThreads
NoThread == 0

VARIABLES
    key_usage,          \* pool: key index -> [calls, reset_time]; reset_time is
                        \*   kept relative to the clock (seconds left), 0 = expired
    current_key_index,  \* pool: index of the key issued last
    lock,               \* pool: the thread holding self.lock, or NoThread
    tpc,                \* pool: where each thread stands in get_key
    sleep_left,         \* pool: ticks left of a thread's time.sleep
    last_key,           \* pool: the key the thread's last get_key returned (-1: none)
    issued,             \* history: key -> age in ticks -> number of get_key
                        \*   returns of that key that many ticks ago
    since_reset,        \* history: key -> get_key returns since the key's last reset
    recording           \* whether what no liveness property reads is kept: the
                        \*   history of issues by age (issued) and the results of
                        \*   the transcript and audio-description calls

VARIABLES
    variant,            \* "simple": pipeline_simple.main, "parallel":
                        \*   pipeline_parallel.main, "sequential": pipeline.main
    all_urls,           \* the url column of the input CSV, in order
    ledger,             \* content of output/all_results.jsonl, a sequence of tokens
    ledger0,            \* history: the Ledger content when the run started
    pc,                 \* where the main thread stands
    completed_urls,     \* load_completed_urls(results_file)
    remaining_urls,     \* the list the scheduler works through
    download_idx,       \* index (0-based, as in the code) of the next URL to download
    dl,                 \* per WorkItem (position in remaining_urls): state of its
                        \*   download future
    proc,               \* per WorkItem: state of its analysis future
    pending_downloads,  \* WorkItems whose download future main still tracks
    pending_processes,  \* WorkItems whose analysis future main still tracks
    done_downloads,     \* line 198: the snapshot the for loop of line 199 iterates
    done_processes,     \* line 242: the snapshot the for loop of line 243 iterates
    video_files,        \* video ids whose downloaded file exists in output/downloads
    audio_files,        \* video ids whose extracted _audio.mp3 exists
    successful,         \* counter
    failed,             \* counter
    processed_count,    \* counter (completed in pipeline_parallel)
    failed_downloads,   \* pipeline_parallel: [(url, error)] of the download batch
    save_idx,           \* pipeline_parallel: position of the loop of line 349
    except_url,         \* pipeline_parallel: WorkItem whose handler is in its except branch
    run,                \* number of the current run of main over the same input
    written_earlier     \* history: URLs whose record an earlier run wrote in full

VARIABLES
    transcript,         \* per WorkItem: result['transcript'] of its analysis while
                        \*   the result is held ("unset", "text" or "None")
    sound_description,  \* per WorkItem: what the audio-description call returned
                        \*   ("unset", "text" or "fallback")
    errors,             \* history: the 'error' field of each record this run
                        \*   appended, in order
    write_failed        \* history: WorkItems whose record could not be written

VARIABLES
    total_frames,       \* keyframe_extractor: frame count of the video
    num_frames,         \* keyframe_extractor: the number of keyframes asked for
    frame_scores,       \* keyframe_extractor: combined score of frame 1, 2, ...
    peaks,              \* keyframe_extractor: positions find_peaks returned
    selected_indices,   \* keyframe_extractor: the frame indices to extract
    top_indices,        \* history: selected_indices as line 129 left it, before
                        \*   the first and the last frame are forced in
    kf_pc               \* keyframe_extractor: "input" or "selected"

VARIABLES
    retry_pc,           \* retry_failed.main: "idle", then "no_failures" (line 59)
                        \*   or "created" (line 90)
    retry_csv           \* the url column of retry_videos.csv

VARIABLES
    seq_pc,             \* pipeline.main: where it stands
    seq_idx,            \* pipeline.main: idx of the for loop of line 240
    seq_key,            \* pipeline.main: current_key_index
    seq_calls           \* history: the calls of process_video, (idx, key) each

VARIABLES
    calls_this_minute,  \* pipeline.main: per key, the calls charged to it
    minute_start_time   \* pipeline.main: per key, the ticks elapsed since its
                        \*   minute_start_time, up to Window (-1: no entry)

VARIABLES
    w_pc,               \* per analysis: the line process_single_video(_simple) is at
    w_sub,              \* per analysis: the futures of the two parallel sub-calls
    w_log               \* history, per analysis: what has completed, in order

pipeVars == <<variant, all_urls, ledger, ledger0, pc, completed_urls,
              remaining_urls, download_idx, dl, proc, pending_downloads,
              pending_processes, done_downloads, done_processes, video_files,
              audio_files, successful, failed, processed_count,
              failed_downloads, save_idx, except_url, run, written_earlier>>

crashVars == <<run, written_earlier>>

poolVars == <<key_usage, current_key_index, lock, tpc, sleep_left, last_key,
              issued, since_reset, recording>>

noteVars == <<transcript, sound_description, errors, write_failed>>

kfVars == <<total_frames, num_frames, frame_scores, peaks, selected_indices,
            top_indices, kf_pc>>

retryVars == <<retry_pc, retry_csv>>

seqVars == <<seq_pc, seq_idx, seq_key, seq_calls>>

workVars == <<w_pc, w_sub, w_log>>

rateVars == <<calls_this_minute, minute_start_time>>

toolVars == <<kfVars, retryVars, seqVars, workVars, rateVars>>

sideVars == <<noteVars, toolVars>>

vars == <<pipeVars, poolVars, sideVars>>

Items == 1 .. MaxItems

\* no pipeline is running: the state of the pipeline variables while the
\* pool is examined on its own
PipeIdle ==
    /\ variant = "simple"
    /\ all_urls = << >>
    /\ ledger = << >>
    /\ ledger0 = << >>
    /\ pc = "start"
    /\ completed_urls = {}
    /\ remaining_urls = << >>
    /\ download_idx = 0
    /\ dl = [i \in Items |-> "unsubmitted"]
    /\ proc = [i \in Items |-> "none"]
    /\ pending_downloads = {}
    /\ pending_processes = {}
    /\ done_downloads = {}
    /\ done_processes = {}
    /\ video_files = {}
    /\ audio_files = {}
    /\ successful = 0
    /\ failed = 0
    /\ processed_count = 0
    /\ failed_downloads = << >>
    /\ save_idx = 0
    /\ except_url = 0
    /\ run = 1
    /\ written_earlier = {}

\* no analysis result is held and nothing has been appended yet
NoteIdle ==
    /\ transcript = [i \in Items |-> "unset"]
    /\ sound_description = [i \in Items |-> "unset"]
    /\ errors = << >>
    /\ write_failed = {}

\* extract_keyframes is not running
KfIdle ==
    /\ total_frames = 0
    /\ num_frames = 0
    /\ frame_scores = << >>
    /\ peaks = {}
    /\ selected_indices = << >>
    /\ top_indices = << >>
    /\ kf_pc = "input"

\* retry_failed.py has not been run
RetryIdle ==
    /\ retry_pc = "idle"
    /\ retry_csv = << >>

\* pipeline.py has not been run
SeqIdle ==
    /\ seq_pc = "idle"
    /\ seq_idx = 0
    /\ seq_key = 0
    /\ seq_calls = << >>

\* lines 207-209: the dicts of pipeline.main before its loop
RateIdle ==
    /\ calls_this_minute = [k \in Keys |-> 0]
    /\ minute_start_time = [k \in Keys |-> -1]

\* the two parallel sub-calls of an analysis
SubCalls == {"transcript", "audio"}

Analyses == 1 .. MaxAnalyses

\* no analysis is followed step by step
WorkIdle ==
    /\ w_pc = [w \in Analyses |-> "idle"]
    /\ w_sub = [w \in Analyses |-> [c \in SubCalls |-> "none"]]
    /\ w_log = [w \in Analyses |-> << >>]

SideIdle ==
    /\ NoteIdle
    /\ KfIdle
    /\ RetryIdle
    /\ SeqIdle
    /\ WorkIdle
    /\ RateIdle

(***************************************************************************)
(* RateLimitedAPIKeyPool                                                   *)
(***************************************************************************)
Ages == 0 .. (Window - 1)

\* a reset that forgets to clear the counter
FreshUsageKeepsCalls == [calls |-> CallsPerMinute, reset_time |-> Window]

\* line 28 and line 41: a fresh window, {'calls': 0, 'reset_time': now + 60}
FreshUsage == [calls |-> 0, reset_time |-> Window]

\* the comparison of line 40 turned around: time.time() <= reset_time
WindowExpiredReversed(u) == u.reset_time >= 0

\* line 40: time.time() >= reset_time
WindowExpired(u) == u.reset_time <= 0

\* the comparison of line 44 off by one: calls <= calls_per_minute
HasCapacityOffByOne(u) == u.calls <= CallsPerMinute

\* line 44: calls < calls_per_minute
HasCapacity(u) == u.calls < CallsPerMinute

\* lines 36-47: the for loop of get_key from offset i on; returns the usage
\* table after the resets and the increment, the key found (-1: none) and
\* the keys whose window was reset on the way.
RECURSIVE ScanKeys(_, _, _, _)
ScanKeys(usage, start, i, resets) ==
    IF i = NumKeys
    THEN [usage |-> usage, found |-> -1, resets |-> resets]
    ELSE LET check_index == (start + i) % NumKeys
             expired == WindowExpired(usage[check_index])
             u1 == IF expired
                   THEN [usage EXCEPT ![check_index] = FreshUsage]
                   ELSE usage
             r1 == IF expired THEN resets \cup {check_index} ELSE resets
         IN  IF HasCapacity(u1[check_index])
             THEN [usage |-> [u1 EXCEPT ![check_index].calls = @ + 1],
                   found |-> check_index, resets |-> r1]
             ELSE ScanKeys(u1, start, i + 1, r1)

\* line 50: min over the keys of reset_time - time.time()
RECURSIVE MinWaitFrom(_, _)
MinWaitFrom(usage, k) ==
    IF k = NumKeys - 1 THEN usage[k].reset_time
    ELSE LET rest == MinWaitFrom(usage, k + 1)
         IN  IF usage[k].reset_time < rest THEN usage[k].reset_time ELSE rest

MinWait(usage) == MinWaitFrom(usage, 0)

InitPool ==
    /\ key_usage = [k \in Keys |-> FreshUsage]
    /\ current_key_index = 0
    /\ lock = NoThread
    /\ tpc = [t \in Threads |-> "idle"]
    /\ sleep_left = [t \in Threads |-> 0]
    /\ last_key = [t \in Threads |-> -1]
    /\ issued = [k \in Keys |-> [a \in Ages |-> 0]]
    /\ since_reset = [k \in Keys |-> 0]

\* a thread calls get_key (line 31) and waits for the lock
CallGetKey(t) ==
    /\ tpc[t] = "idle"
    /\ tpc' = [tpc EXCEPT ![t] = "wait_lock"]
    /\ UNCHANGED <<key_usage, current_key_index, lock, sleep_left, last_key,
                   issued, since_reset, recording, pipeVars, sideVars>>

\* line 33: with self.lock
AcquireLock(t) ==
    /\ tpc[t] = "wait_lock"
    /\ lock = NoThread
    /\ lock' = t
    /\ tpc' = [tpc EXCEPT ![t] = "in_lock"]
    /\ UNCHANGED <<key_usage, current_key_index, sleep_left, last_key,
                   issued, since_reset, recording, pipeVars, sideVars>>

\* lines 34-53: one pass of the while loop, under the lock: the scan, and
\* either the return (which leaves the with block and releases the lock) or
\* the sleep until the nearest reset (the lock stays held).
ScanPass(t) ==
    /\ tpc[t] = "in_lock"
    /\ lock = t
    /\ UNCHANGED <<recording, pipeVars, sideVars>>
    /\ LET r == ScanKeys(key_usage, current_key_index, 0, {})
       IN  /\ key_usage' = r.usage
           /\ since_reset' =
                [k \in Keys |->
                    (IF k \in r.resets THEN 0 ELSE since_reset[k])
                    + (IF k = r.found THEN 1 ELSE 0)]
           /\ IF r.found # -1
              THEN /\ current_key_index' = r.found
                   /\ last_key' = [last_key EXCEPT ![t] = r.found]
                   /\ issued' = IF recording
                                THEN [issued EXCEPT ![r.found][0] = @ + 1]
                                ELSE issued
                   /\ lock' = NoThread
                   /\ tpc' = [tpc EXCEPT ![t] = "idle"]
                   /\ UNCHANGED sleep_left
              ELSE /\ UNCHANGED <<current_key_index, last_key, issued, lock>>
                   /\ IF MinWait(r.usage) > 0
                      THEN /\ tpc' = [tpc EXCEPT ![t] = "sleeping"]
                           /\ sleep_left' =
                                [sleep_left EXCEPT ![t] = MinWait(r.usage)]
                      ELSE UNCHANGED <<tpc, sleep_left>>

\* line 53: time.sleep returns, the while loop runs again (lock still held)
WakeUp(t) ==
    /\ tpc[t] = "sleeping"
    /\ sleep_left[t] = 0
    /\ tpc' = [tpc EXCEPT ![t] = "in_lock"]
    /\ UNCHANGED <<key_usage, current_key_index, lock, sleep_left, last_key,
                   issued, since_reset, recording, pipeVars, sideVars>>

\* the clock advances by one tick
Tick ==
    /\ key_usage' = [k \in Keys |->
            [key_usage[k] EXCEPT
                !.reset_time = IF @ > 0 THEN @ - 1 ELSE 0]]
    /\ sleep_left' = [t \in Threads |->
            IF sleep_left[t] > 0 THEN sleep_left[t] - 1 ELSE 0]
    /\ issued' = IF recording
                 THEN [k \in Keys |-> [a \in Ages |->
                          IF a = 0 THEN 0 ELSE issued[k][a - 1]]]
                 ELSE issued
    /\ UNCHANGED <<current_key_index, lock, tpc, last_key, since_reset,
                   recording, pipeVars, sideVars>>

NextPool ==
    \/ \E t \in Threads : CallGetKey(t)
    \/ \E t \in Threads : AcquireLock(t)
    \/ \E t \in Threads : ScanPass(t)
    \/ \E t \in Threads : WakeUp(t)
    \/ Tick

\* the pool right after its construction, no pipeline running
InitPoolAlone ==
    /\ InitPool
    /\ PipeIdle
    /\ SideIdle
    /\ recording = TRUE

\* the same without the history of issues, which no liveness property reads
InitPoolLive ==
    /\ InitPool
    /\ PipeIdle
    /\ SideIdle
    /\ recording = FALSE

SpecPool == InitPoolAlone /\ [][NextPool]_vars

\* time advances, a thread inside get_key keeps running, and a released lock
\* is eventually granted to each waiter; callers are free to stop calling.
FairPool ==
    /\ InitPoolLive
    /\ [][NextPool]_vars
    /\ WF_vars(Tick)
    /\ \A t \in Threads :
          /\ SF_vars(AcquireLock(t))
          /\ WF_vars(ScanPass(t))
          /\ WF_vars(WakeUp(t))

RECURSIVE SumAges(_, _)
SumAges(f, a) == IF a < 0 THEN 0 ELSE f[a] + SumAges(f, a - 1)

\* get_key returns of key k during the last Window ticks (60 seconds)
RecentIssues(k) == SumAges(issued[k], Window - 1)

(***************************************************************************)
(* Claims about the pool                                                   *)
(***************************************************************************)
\* C1: for every key, the calls counter stays within 0..calls_per_minute and
\* no more than calls_per_minute get_key calls return the key between two
\* consecutive resets of its window.
C1_CallsWithinWindow ==
    \A k \in Keys :
        /\ key_usage[k].calls \in 0 .. CallsPerMinute
        /\ since_reset[k] <= CallsPerMinute

\* C1 witness: every key has been issued to capacity in its current window
\* and a caller waits for the nearest reset.
C1_Witness ==
    /\ \A k \in Keys : since_reset[k] = CallsPerMinute
    /\ \E t \in Threads : tpc[t] = "sleeping"

C5_GetKeyReturns ==
    /\ \A t \in Threads :
          (tpc[t] = "wait_lock") ~> (tpc[t] = "idle" /\ last_key[t] \in Keys)
    /\ [](\A t \in Threads : last_key[t] \in Keys \cup {-1})

\* C5 witness: a caller has returned with a key while all keys are exhausted
\* and another caller sleeps inside get_key.
C5_Witness ==
    \E t \in Threads :
        /\ tpc[t] = "sleeping"
        /\ \E t2 \in Threads \ {t} : tpc[t2] = "wait_lock" /\ last_key[t2] \in Keys


(***************************************************************************)
(* The Ledger file (output/all_results.jsonl)                              *)
(*                                                                         *)
(* The file content is a sequence of tokens: the JSON text of one record,  *)
(* a line feed, a strict prefix of a record's JSON text (what a write cut  *)
(* short leaves behind), or text that is no JSON record at all.            *)
(***************************************************************************)
Urls == {"watch?v=A", "shorts/A", "watch?v=B"}

\* video_downloader.py:30: the id yt-dlp reports; both URL forms of a video
\* carry the same id, and the file names derive from it (line 23).
VideoId(u) == IF u = "watch?v=B" THEN "B" ELSE "A"

\* json.dumps(result, ensure_ascii=False)
Rec(u, ok) == [t |-> "rec", url |-> u, success |-> ok]
\* '\n'
NL == [t |-> "nl", url |-> "", success |-> FALSE]
\* a strict prefix of the JSON text of a record of u
Part(u) == [t |-> "part", url |-> u, success |-> FALSE]
\* a line that is not a JSON object with a url
Junk == [t |-> "junk", url |-> "", success |-> FALSE]

\* open(results_file, 'w') in place of 'a': the write replaces the content
WriteTruncating(file, u, ok) == <<Rec(u, ok), NL>>

\* pipeline_simple.py:229-230, :255-256, pipeline_parallel.py:351-352,
\* :397-398, :415-416: open(results_file, 'a'); f.write(json + '\n')
AppendRecord(file, u, ok) == file \o <<Rec(u, ok), NL>>

\* for line in f: the lines of the file, a last unterminated one included
RECURSIVE LinesFrom(_, _, _, _)
LinesFrom(file, i, cur, acc) ==
    IF i > Len(file)
    THEN IF cur = << >> THEN acc ELSE Append(acc, cur)
    ELSE IF file[i].t = "nl"
         THEN LinesFrom(file, i + 1, << >>, Append(acc, cur))
         ELSE LinesFrom(file, i + 1, Append(cur, file[i]), acc)

Lines(file) == LinesFrom(file, 1, << >>, << >>)

\* json.loads(line.strip()) succeeds and result['url'] exists: the line is
\* the text of exactly one record (anything before or after it is a
\* JSONDecodeError, swallowed by the bare except of line 201)
Parses(line) == Len(line) = 1 /\ line[1].t = "rec"

\* a filter that skips only the URLs whose record has success true
CompletedOnlySuccessful(file) ==
    {Lines(file)[n][1].url : n \in
        {m \in 1 .. Len(Lines(file)) :
            Parses(Lines(file)[m]) /\ Lines(file)[m][1].success}}

\* pipeline_parallel.py:192-203 load_completed_urls
load_completed_urls(file) ==
    {Lines(file)[n][1].url : n \in
        {m \in 1 .. Len(Lines(file)) : Parses(Lines(file)[m])}}

\* [url for url in all_urls if url not in completed_urls]
RECURSIVE NotIn(_, _)
NotIn(urls, done) ==
    IF urls = << >> THEN << >>
    ELSE IF Head(urls) \in done
         THEN NotIn(Tail(urls), done)
         ELSE <<Head(urls)>> \o NotIn(Tail(urls), done)

\* pipeline_simple.py:145-149, pipeline_parallel.py:325-331
RemainingUrls(urls, done) == IF done # {} THEN NotIn(urls, done) ELSE urls

Range(f) == {f[i] : i \in DOMAIN f}

(***************************************************************************)
(* Inputs                                                                  *)
(***************************************************************************)
RECURSIVE SeqsUpTo(_, _)
SeqsUpTo(S, n) ==
    IF n = 0 THEN {<< >>}
    ELSE LET shorter == SeqsUpTo(S, n - 1)
         IN  shorter \cup {Append(q, x) : q \in shorter, x \in S}

InputLists == SeqsUpTo(Urls, MaxInput)

NoDuplicates(q) == \A i, j \in 1 .. Len(q) : q[i] = q[j] => i = j

\* the deduplicated URL lists, up to the longest a run works through
DistinctInputs == {q \in SeqsUpTo(Urls, MaxItems) : NoDuplicates(q)}

\* Ledgers a run may find: none, one left by an earlier pass with a success
\* and a failure, and one with a malformed line
InitialLedgers ==
    { << >>,
      <<Rec("watch?v=A", TRUE), NL, Rec("watch?v=B", FALSE), NL>>,
      <<Rec("shorts/A", FALSE), NL, Junk, NL>> }

Variants == {"simple", "parallel"}

(***************************************************************************)
(* The executors                                                           *)
(***************************************************************************)
\* pipeline_simple.py:173 max_workers=1; pipeline_parallel.py:259 max_workers=5
DownloadWorkers == IF variant = "simple" THEN 1 ELSE 5

\* pipeline_simple.py:174 len(api_keys) * 2; pipeline_parallel.py:367 len(api_keys) * 3
ProcessWorkers == IF variant = "simple" THEN NumKeys * 2 ELSE NumKeys * 3

DlDone == {"ok", "raised"}
\* a worker is taken by a call that runs and by one that never returns
DlBusy == {"running", "hung"}
ProcRunning == {"keyframes", "api_calls", "final"}
ProcDone == {"succeeded", "failed"}

UrlOf(i) == remaining_urls[i]

\* a download worker takes the next queued download
DownloadStart(i) ==
    /\ dl[i] = "queued"
    /\ Cardinality({j \in Items : dl[j] \in DlBusy}) < DownloadWorkers
    /\ dl' = [dl EXCEPT ![i] = "running"]
    /\ UNCHANGED <<variant, all_urls, ledger, ledger0, pc, completed_urls,
                   remaining_urls, download_idx, proc, pending_downloads,
                   pending_processes, done_downloads, done_processes,
                   video_files, audio_files, successful, failed,
                   processed_count, failed_downloads, save_idx, except_url,
                   poolVars, crashVars, sideVars>>

\* download_video returns the path of the file it wrote; in pipeline_parallel
\* the worker (download_and_extract_audio, lines 227-256) extracts the audio too
DownloadReturns(i) ==
    /\ dl[i] = "running"
    /\ dl' = [dl EXCEPT ![i] = "ok"]
    /\ video_files' = video_files \cup {VideoId(UrlOf(i))}
    /\ audio_files' = IF variant = "parallel"
                      THEN audio_files \cup {VideoId(UrlOf(i))}
                      ELSE audio_files
    /\ UNCHANGED <<variant, all_urls, ledger, ledger0, pc, completed_urls,
                   remaining_urls, download_idx, proc, pending_downloads,
                   pending_processes, done_downloads, done_processes,
                   successful, failed, processed_count, failed_downloads,
                   save_idx, except_url, poolVars, crashVars, sideVars>>

\* download_video raises; in pipeline_parallel the worker returns the error
\* and line 269 (or 282) appends it to failed_downloads
DownloadRaises(i) ==
    /\ dl[i] = "running"
    /\ dl' = [dl EXCEPT ![i] = "raised"]
    /\ failed_downloads' = IF variant = "parallel"
                           THEN Append(failed_downloads, UrlOf(i))
                           ELSE failed_downloads
    /\ UNCHANGED <<variant, all_urls, ledger, ledger0, pc, completed_urls,
                   remaining_urls, download_idx, proc, pending_downloads,
                   pending_processes, done_downloads, done_processes,
                   video_files, audio_files, successful, failed,
                   processed_count, save_idx, except_url, poolVars, crashVars, sideVars>>

\* an analysis worker takes a queued WorkItem: process_single_video_simple
\* (pipeline_simple.py:68) or process_single_video (pipeline_parallel.py:56)
\* starts with the keyframe extraction
ProcStart(i) ==
    /\ proc[i] = "queued"
    /\ Cardinality({j \in Items : proc[j] \in ProcRunning}) < ProcessWorkers
    /\ proc' = [proc EXCEPT ![i] = "keyframes"]
    /\ UNCHANGED <<variant, all_urls, ledger, ledger0, pc, completed_urls,
                   remaining_urls, download_idx, dl, pending_downloads,
                   pending_processes, done_downloads, done_processes,
                   video_files, audio_files, successful, failed,
                   processed_count, failed_downloads, save_idx, except_url,
                   poolVars, crashVars, sideVars>>

\* pipeline_parallel.py:122-151: get_transcript_from_audio returns the text,
\* or None once its third attempt has raised
TranscriptResults == {"text", "None"}

\* audio_recognizer.py:9-66: analyze_audio_with_gemini returns the
\* description, or a fixed fallback text once its third attempt has raised
SoundResults == {"text", "fallback"}

\* lines 82-97 of pipeline_simple.py: extract_keyframes returns; then the two
\* keys are taken and the transcript and audio-description calls return:
\* neither call lets an exception out
ProcAdvance(i) ==
    /\ proc[i] \in {"keyframes", "api_calls"}
    /\ proc' = [proc EXCEPT ![i] =
                    IF proc[i] = "keyframes" THEN "api_calls" ELSE "final"]
    /\ IF proc[i] = "api_calls" /\ recording
       THEN /\ \E r \in TranscriptResults :
                  transcript' = [transcript EXCEPT ![i] = r]
            /\ \E r \in SoundResults :
                  sound_description' = [sound_description EXCEPT ![i] = r]
       ELSE UNCHANGED <<transcript, sound_description>>
    /\ UNCHANGED <<variant, all_urls, ledger, ledger0, pc, completed_urls,
                   remaining_urls, download_idx, dl, pending_downloads,
                   pending_processes, done_downloads, done_processes,
                   video_files, audio_files, successful, failed,
                   processed_count, failed_downloads, save_idx, except_url,
                   poolVars, crashVars, errors, write_failed, toolVars>>

\* pipeline_simple.py:107-114 and pipeline_parallel.py:106-113: the cleanup is
\* the tail of the try block, reached only when no step raised
Cleanup(files, i, succeeded) ==
    IF succeeded THEN files \ {VideoId(UrlOf(i))} ELSE files

\* lines 100-114: the final analysis returns, success is set, the video and
\* audio files are removed
ProcSucceeds(i) ==
    /\ proc[i] = "final"
    /\ proc' = [proc EXCEPT ![i] = "succeeded"]
    /\ video_files' = Cleanup(video_files, i, TRUE)
    /\ audio_files' = Cleanup(audio_files, i, TRUE)
    /\ UNCHANGED <<variant, all_urls, ledger, ledger0, pc, completed_urls,
                   remaining_urls, download_idx, dl, pending_downloads,
                   pending_processes, done_downloads, done_processes,
                   successful, failed, processed_count, failed_downloads,
                   save_idx, except_url, poolVars, crashVars, sideVars>>

\* the steps of the analysis that can raise: extract_keyframes (line 82) and
\* analyze_video_content (line 101)
RaisingSteps == {"keyframes", "final"}

\* lines 116-119: a step raised; the except branch stores the error and the
\* result is returned
ProcRaises(i) ==
    /\ proc[i] \in RaisingSteps
    /\ proc' = [proc EXCEPT ![i] = "failed"]
    /\ video_files' = Cleanup(video_files, i, FALSE)
    /\ audio_files' = Cleanup(audio_files, i, FALSE)
    /\ UNCHANGED <<variant, all_urls, ledger, ledger0, pc, completed_urls,
                   remaining_urls, download_idx, dl, pending_downloads,
                   pending_processes, done_downloads, done_processes,
                   successful, failed, processed_count, failed_downloads,
                   save_idx, except_url, poolVars, crashVars, sideVars>>

\* a result that reports success whatever happened
ResultSuccessAlways(i) == TRUE

\* result['success'] of a finished analysis (line 105; line 73 otherwise)
ResultSuccess(i) == proc[i] = "succeeded"

\* result['error'] of a finished analysis: str(e) of line 117, else None
ResultError(i) == IF proc[i] = "failed" THEN "error" ELSE "None"

\* the 'error' text of the record of a failed download (pipeline_simple.py:228,
\* pipeline_parallel.py:350)
DownloadError == "Download failed"

\* the result of WorkItem i is no longer referenced once main has written it
Dropped(f, i) == [f EXCEPT ![i] = "unset"]

(***************************************************************************)
(* pipeline_simple.main                                                    *)
(***************************************************************************)
\* a success branch that does not go on to the next URL
HasNextNever == FALSE

\* lines 218, 234: download_idx < len(remaining_urls)
HasNext == download_idx < Len(remaining_urls)

\* a failure branch that does not go on to the next URL
HasNextAfterFailureNever == FALSE

\* line 234: the same test in the except branch
HasNextAfterFailure == download_idx < Len(remaining_urls)

\* lines 218-223 and 234-239: submit the next URL to the download executor
DlAfterSubmit(more) == IF more THEN [dl EXCEPT ![download_idx + 1] = "queued"] ELSE dl
\* a handler that leaves the finished future in pending_downloads
PendingKeepsFinished(p, more) ==
    IF more THEN pending_downloads \cup {download_idx + 1} ELSE pending_downloads

PendingAfterSubmit(p, more) == IF more THEN p \cup {download_idx + 1} ELSE p
IdxAfterSubmit(more) == IF more THEN download_idx + 1 ELSE download_idx

\* a test that never takes the early return
NothingRemainsNever(rem) == FALSE

\* line 151: if not remaining_urls
NothingRemains(rem) == rem = << >>

\* lines 122-188: load the input and the Ledger, filter, return when nothing
\* remains, else start the first download
SimpleStart ==
    /\ variant = "simple"
    /\ pc = "start"
    /\ LET done == load_completed_urls(ledger)
           rem == RemainingUrls(all_urls, done)
       IN  /\ completed_urls' = done
           /\ remaining_urls' = rem
           /\ IF NothingRemains(rem)
              THEN /\ pc' = "returned"
                   /\ UNCHANGED <<dl, pending_downloads, download_idx>>
              ELSE /\ pc' = "loop_top"
                   /\ dl' = [dl EXCEPT ![1] = "queued"]
                   /\ pending_downloads' = {1}
                   /\ download_idx' = 1
    /\ UNCHANGED <<variant, all_urls, ledger, ledger0, proc,
                   pending_processes, done_downloads, done_processes,
                   video_files, audio_files, successful, failed,
                   processed_count, failed_downloads, save_idx, except_url,
                   poolVars, crashVars, sideVars>>

\* a loop that stops as soon as every URL has been submitted
LoopConditionNoWait ==
    download_idx < Len(remaining_urls)

\* line 190: while pending_downloads or pending_processes or
\*           download_idx < len(remaining_urls)
LoopCondition ==
    \/ pending_downloads # {}
    \/ pending_processes # {}
    \/ download_idx < Len(remaining_urls)

\* lines 190-198: the loop test; then the snapshot of the finished downloads,
\* or the exit and the shutdown of the executors (lines 277-291)
LoopTop ==
    /\ variant = "simple"
    /\ pc = "loop_top"
    /\ IF LoopCondition
       THEN /\ pc' = "downloads"
            /\ done_downloads' = {i \in pending_downloads : dl[i] \in DlDone}
       ELSE /\ pc' = "exited"
            /\ UNCHANGED done_downloads
    /\ UNCHANGED <<variant, all_urls, ledger, ledger0, completed_urls,
                   remaining_urls, download_idx, dl, proc, pending_downloads,
                   pending_processes, done_processes, video_files,
                   audio_files, successful, failed, processed_count,
                   failed_downloads, save_idx, except_url, poolVars, crashVars, sideVars>>

\* lines 199-223: a finished download whose result and audio extraction are
\* fine is handed to the analysis executor, and the next download starts
HandleDownloadOk(i) ==
    /\ variant = "simple"
    /\ pc = "downloads"
    /\ i \in done_downloads
    /\ dl[i] = "ok"
    /\ done_downloads' = done_downloads \ {i}
    /\ audio_files' = audio_files \cup {VideoId(UrlOf(i))}
    /\ proc' = [proc EXCEPT ![i] = "queued"]
    /\ pending_processes' = pending_processes \cup {i}
    /\ dl' = DlAfterSubmit(HasNext)
    /\ pending_downloads' = PendingAfterSubmit(pending_downloads \ {i}, HasNext)
    /\ download_idx' = IdxAfterSubmit(HasNext)
    /\ UNCHANGED <<variant, all_urls, ledger, ledger0, pc, completed_urls,
                   remaining_urls, done_processes, video_files, successful,
                   failed, processed_count, failed_downloads, save_idx,
                   except_url, poolVars, crashVars, sideVars>>

\* lines 225-239: future.result() or extract_audio_from_video raised: the
\* failure record is appended, failed is counted, the next download starts
HandleDownloadFailed(i) ==
    /\ variant = "simple"
    /\ pc = "downloads"
    /\ i \in done_downloads
    /\ dl[i] \in DlDone
    /\ done_downloads' = done_downloads \ {i}
    /\ ledger' = AppendRecord(ledger, UrlOf(i), FALSE)
    /\ errors' = Append(errors, DownloadError)
    /\ failed' = failed + 1
    /\ dl' = DlAfterSubmit(HasNextAfterFailure)
    /\ pending_downloads' = PendingAfterSubmit(pending_downloads \ {i}, HasNextAfterFailure)
    /\ download_idx' = IdxAfterSubmit(HasNextAfterFailure)
    /\ UNCHANGED <<variant, all_urls, ledger0, pc, completed_urls,
                   remaining_urls, proc, pending_processes, done_processes,
                   video_files, audio_files, successful, processed_count,
                   failed_downloads, save_idx, except_url, poolVars, crashVars,
                   transcript, sound_description, write_failed, toolVars>>

\* line 242: the for loop of line 199 is over; snapshot of the finished analyses
SnapshotProcesses ==
    /\ variant = "simple"
    /\ pc = "downloads"
    /\ done_downloads = {}
    /\ pc' = "processes"
    /\ done_processes' = {i \in pending_processes : proc[i] \in ProcDone}
    /\ UNCHANGED <<variant, all_urls, ledger, ledger0, completed_urls,
                   remaining_urls, download_idx, dl, proc, pending_downloads,
                   pending_processes, done_downloads, video_files,
                   audio_files, successful, failed, processed_count,
                   failed_downloads, save_idx, except_url, poolVars, crashVars, sideVars>>

\* lines 243-268: the result of a finished analysis is counted and appended
HandleProcess(i) ==
    /\ variant = "simple"
    /\ pc = "processes"
    /\ i \in done_processes
    /\ done_processes' = done_processes \ {i}
    /\ pending_processes' = pending_processes \ {i}
    /\ successful' = IF ResultSuccess(i) THEN successful + 1 ELSE successful
    /\ failed' = IF ResultSuccess(i) THEN failed ELSE failed + 1
    /\ ledger' = AppendRecord(ledger, UrlOf(i), ResultSuccess(i))
    /\ errors' = Append(errors, ResultError(i))
    /\ transcript' = Dropped(transcript, i)
    /\ sound_description' = Dropped(sound_description, i)
    /\ processed_count' = processed_count + 1
    /\ UNCHANGED <<variant, all_urls, ledger0, pc, completed_urls,
                   remaining_urls, download_idx, dl, proc, pending_downloads,
                   done_downloads, video_files, audio_files,
                   failed_downloads, save_idx, except_url, poolVars, crashVars,
                   write_failed, toolVars>>

\* lines 274-275: the for loop of line 243 is over; sleep and loop
EndIteration ==
    /\ variant = "simple"
    /\ pc = "processes"
    /\ done_processes = {}
    /\ pc' = "loop_top"
    /\ UNCHANGED <<variant, all_urls, ledger, ledger0, completed_urls,
                   remaining_urls, download_idx, dl, proc, pending_downloads,
                   pending_processes, done_downloads, done_processes,
                   video_files, audio_files, successful, failed,
                   processed_count, failed_downloads, save_idx, except_url,
                   poolVars, crashVars, sideVars>>

(***************************************************************************)
(* pipeline_parallel.main                                                  *)
(***************************************************************************)
\* lines 290-341 and 259-260: load, filter, return when nothing to do, else
\* submit every remaining URL to the download batch
ParStart ==
    /\ variant = "parallel"
    /\ pc = "start"
    /\ LET done == load_completed_urls(ledger)
           rem == RemainingUrls(all_urls, done)
       IN  /\ completed_urls' = IF all_urls = << >> THEN {} ELSE done
           /\ remaining_urls' = IF all_urls = << >> THEN << >> ELSE rem
           /\ IF all_urls = << >> \/ rem = << >>
              THEN /\ pc' = "returned"
                   /\ UNCHANGED dl
              ELSE /\ pc' = "batch"
                   /\ dl' = [i \in Items |->
                                IF i <= Len(rem) THEN "queued" ELSE dl[i]]
    /\ UNCHANGED <<variant, all_urls, ledger, ledger0, download_idx, proc,
                   pending_downloads, pending_processes, done_downloads,
                   done_processes, video_files, audio_files, successful,
                   failed, processed_count, failed_downloads, save_idx,
                   except_url, poolVars, crashVars, sideVars>>

\* lines 263-287, 343-344: every download future has completed
ParBatchDone ==
    /\ variant = "parallel"
    /\ pc = "batch"
    /\ \A i \in 1 .. Len(remaining_urls) : dl[i] \in DlDone
    /\ pc' = "save_failed"
    /\ save_idx' = 0
    /\ UNCHANGED <<variant, all_urls, ledger, ledger0, completed_urls,
                   remaining_urls, download_idx, dl, proc, pending_downloads,
                   pending_processes, done_downloads, done_processes,
                   video_files, audio_files, successful, failed,
                   processed_count, failed_downloads, except_url, poolVars, crashVars, sideVars>>

\* lines 349-352: one pass of the loop that saves the failed downloads
ParSaveFailed ==
    /\ variant = "parallel"
    /\ pc = "save_failed"
    /\ save_idx < Len(failed_downloads)
    /\ ledger' = AppendRecord(ledger, failed_downloads[save_idx + 1], FALSE)
    /\ errors' = Append(errors, DownloadError)
    /\ save_idx' = save_idx + 1
    /\ UNCHANGED <<variant, all_urls, ledger0, pc, completed_urls,
                   remaining_urls, download_idx, dl, proc, pending_downloads,
                   pending_processes, done_downloads, done_processes,
                   video_files, audio_files, successful, failed,
                   processed_count, failed_downloads, except_url, poolVars,
                   crashVars, transcript, sound_description, write_failed,
                   toolVars>>

\* url_to_paths is a dict: one entry, hence one analysis, per distinct URL
\* that was downloaded (line 271); the entry is named by its first position
InUrlToPaths(i) ==
    /\ i \in 1 .. Len(remaining_urls)
    /\ dl[i] = "ok"
    /\ \A j \in 1 .. (i - 1) : ~(dl[j] = "ok" /\ UrlOf(j) = UrlOf(i))

\* lines 376-381: every entry of url_to_paths is submitted for analysis
ParSubmitAll ==
    /\ variant = "parallel"
    /\ pc = "save_failed"
    /\ save_idx = Len(failed_downloads)
    /\ pc' = "collect"
    /\ proc' = [i \in Items |-> IF InUrlToPaths(i) THEN "queued" ELSE proc[i]]
    /\ pending_processes' = {i \in Items : InUrlToPaths(i)}
    /\ UNCHANGED <<variant, all_urls, ledger, ledger0, completed_urls,
                   remaining_urls, download_idx, dl, pending_downloads,
                   done_downloads, done_processes, video_files, audio_files,
                   successful, failed, processed_count, failed_downloads,
                   save_idx, except_url, poolVars, crashVars, sideVars>>

\* lines 384-401: as_completed yields a finished analysis; its result is
\* counted and appended; then line 401 evaluates len(urls), a name that main
\* never binds, and the NameError enters the except branch
ParCollect(i) ==
    /\ variant = "parallel"
    /\ pc = "collect"
    /\ i \in pending_processes
    /\ proc[i] \in ProcDone
    /\ pending_processes' = pending_processes \ {i}
    /\ processed_count' = processed_count + 1
    /\ successful' = IF ResultSuccess(i) THEN successful + 1 ELSE successful
    /\ failed' = IF ResultSuccess(i) THEN failed ELSE failed + 1
    /\ ledger' = AppendRecord(ledger, UrlOf(i), ResultSuccess(i))
    /\ errors' = Append(errors, ResultError(i))
    /\ transcript' = Dropped(transcript, i)
    /\ sound_description' = Dropped(sound_description, i)
    /\ pc' = "collect_except"
    /\ except_url' = i
    /\ UNCHANGED <<variant, all_urls, ledger0, completed_urls,
                   remaining_urls, download_idx, dl, proc, pending_downloads,
                   done_downloads, done_processes, video_files, audio_files,
                   failed_downloads, save_idx, poolVars, crashVars,
                   write_failed, toolVars>>

\* lines 412-416: the except branch counts a failure and appends an error
\* record for the same URL
ParCollectExcept ==
    /\ variant = "parallel"
    /\ pc = "collect_except"
    /\ failed' = failed + 1
    /\ ledger' = AppendRecord(ledger, UrlOf(except_url), FALSE)
    /\ errors' = Append(errors, "name 'urls' is not defined")
    /\ pc' = "collect"
    /\ except_url' = 0
    /\ UNCHANGED <<variant, all_urls, ledger0, completed_urls,
                   remaining_urls, download_idx, dl, proc, pending_downloads,
                   pending_processes, done_downloads, done_processes,
                   video_files, audio_files, successful, processed_count,
                   failed_downloads, save_idx, poolVars, crashVars,
                   transcript, sound_description, write_failed, toolVars>>

\* lines 418-423: the loop is over; the summary evaluates len(urls) and main
\* ends with the NameError
ParSummary ==
    /\ variant = "parallel"
    /\ pc = "collect"
    /\ pending_processes = {}
    /\ pc' = "raised"
    /\ UNCHANGED <<variant, all_urls, ledger, ledger0, completed_urls,
                   remaining_urls, download_idx, dl, proc, pending_downloads,
                   pending_processes, done_downloads, done_processes,
                   video_files, audio_files, successful, failed,
                   processed_count, failed_downloads, save_idx, except_url,
                   poolVars, crashVars, sideVars>>

(***************************************************************************)
(* One run of either entry point                                           *)
(***************************************************************************)
\* main has just been started: nothing is loaded, submitted or counted
InitRun ==
    /\ InitPool
    /\ ledger0 = ledger
    /\ pc = "start"
    /\ completed_urls = {}
    /\ remaining_urls = << >>
    /\ download_idx = 0
    /\ dl = [i \in Items |-> "unsubmitted"]
    /\ proc = [i \in Items |-> "none"]
    /\ pending_downloads = {}
    /\ pending_processes = {}
    /\ done_downloads = {}
    /\ done_processes = {}
    /\ video_files = {}
    /\ audio_files = {}
    /\ successful = 0
    /\ failed = 0
    /\ processed_count = 0
    /\ failed_downloads = << >>
    /\ save_idx = 0
    /\ except_url = 0
    /\ run = 1
    /\ written_earlier = {}
    /\ SideIdle

\* the start of a run of either entry point, over any input and Ledger
Init ==
    /\ variant \in Variants
    /\ all_urls \in InputLists
    /\ ledger \in InitialLedgers
    /\ recording = TRUE
    /\ InitRun

Next ==
    \/ SimpleStart
    \/ LoopTop
    \/ \E i \in Items : HandleDownloadOk(i)
    \/ \E i \in Items : HandleDownloadFailed(i)
    \/ SnapshotProcesses
    \/ \E i \in Items : HandleProcess(i)
    \/ EndIteration
    \/ ParStart
    \/ ParBatchDone
    \/ ParSaveFailed
    \/ ParSubmitAll
    \/ \E i \in Items : ParCollect(i)
    \/ ParCollectExcept
    \/ ParSummary
    \/ \E i \in Items : DownloadStart(i)
    \/ \E i \in Items : DownloadReturns(i)
    \/ \E i \in Items : DownloadRaises(i)
    \/ \E i \in Items : ProcStart(i)
    \/ \E i \in Items : ProcAdvance(i)
    \/ \E i \in Items : ProcSucceeds(i)
    \/ \E i \in Items : ProcRaises(i)

Spec == Init /\ [][Next]_vars


(***************************************************************************)
(* pipeline_simple.main alone, with the scheduling the code relies on: the *)
(* main thread keeps looping, the executors start what is queued, and      *)
(* every download call and every analysis step returns or raises.          *)
(***************************************************************************)
\* a fresh start and a resume over a Ledger with a failure record and a
\* malformed line
InitSimple ==
    /\ variant = "simple"
    /\ all_urls \in InputLists
    /\ ledger \in {<< >>, <<Rec("shorts/A", FALSE), NL, Junk, NL>>}
    /\ recording = FALSE
    /\ InitRun

MainStep ==
    \/ SimpleStart
    \/ LoopTop
    \/ \E i \in Items : HandleDownloadOk(i)
    \/ \E i \in Items : HandleDownloadFailed(i)
    \/ SnapshotProcesses
    \/ \E i \in Items : HandleProcess(i)
    \/ EndIteration

NextSimple ==
    \/ MainStep
    \/ \E i \in Items : DownloadStart(i)
    \/ \E i \in Items : DownloadReturns(i)
    \/ \E i \in Items : DownloadRaises(i)
    \/ \E i \in Items : ProcStart(i)
    \/ \E i \in Items : ProcAdvance(i)
    \/ \E i \in Items : ProcSucceeds(i)
    \/ \E i \in Items : ProcRaises(i)

\* pipeline_simple.main over a deduplicated URL list, from an empty Ledger
\* or a Ledger that holds a failure record
InitDistinct ==
    /\ variant = "simple"
    /\ all_urls \in DistinctInputs
    /\ ledger \in {<< >>, <<Rec("shorts/A", FALSE), NL>>}
    /\ recording = TRUE
    /\ InitRun

SpecSimple == InitDistinct /\ [][NextSimple]_vars

FairSimple ==
    /\ InitSimple
    /\ [][NextSimple]_vars
    /\ WF_vars(MainStep)
    /\ \A i \in 1 .. MaxInput :      \* the WorkItems of the lists of InitSimple
          /\ SF_vars(DownloadStart(i))
          /\ WF_vars(DownloadReturns(i) \/ DownloadRaises(i))
          /\ SF_vars(ProcStart(i))
          /\ WF_vars(ProcAdvance(i) \/ ProcSucceeds(i) \/ ProcRaises(i))

(***************************************************************************)
(* What a run has done                                                     *)
(***************************************************************************)
\* the records that occupy a whole line of the file
WholeLineRecords(file) ==
    {k \in 1 .. Len(file) :
        /\ file[k].t = "rec"
        /\ (k = 1 \/ file[k - 1].t = "nl")
        /\ (k = Len(file) \/ file[k + 1].t = "nl")}

\* the URL set L carried by the well-formed lines of a Ledger
LedgerUrls(file) == {file[k].url : k \in WholeLineRecords(file)}

\* the records of u, with success flag ok, written after position n
RecordsAfter(file, n, u, ok) ==
    Cardinality({k \in (n + 1) .. Len(file) : file[k] = Rec(u, ok)})

\* the records of u appended by this run
Appended(u, ok) == RecordsAfter(ledger, Len(ledger0), u, ok)

WorkItems == 1 .. Len(remaining_urls)
Downloaded == {UrlOf(i) : i \in {j \in WorkItems : dl[j] # "unsubmitted"}}
Analyzed == {UrlOf(i) : i \in {j \in WorkItems : proc[j] # "none"}}
Finished == pc \in {"exited", "returned", "raised"}

IsPrefix(p, q) == Len(p) <= Len(q) /\ SubSeq(q, 1, Len(p)) = p

(***************************************************************************)
(* Claims about the scheduler and the Ledger                               *)
(***************************************************************************)
\* C3: a run submits for download and analysis only URLs of the input that
\* are not in the Ledger's URL set L, whatever the success flag of their
\* record, and by its end it has submitted for download every such URL.
C3_ResumeFilter ==
    /\ Downloaded \subseteq (Range(all_urls) \ LedgerUrls(ledger0))
    /\ Analyzed \subseteq Downloaded
    /\ Finished => Downloaded = Range(all_urls) \ LedgerUrls(ledger0)

\* C3 witness: the Ledger holds a success record of one URL and a failure
\* record of another, the input lists the failed one and a new one, and the
\* run has ended having processed only the new one.
C3_Witness ==
    /\ pc = "exited"
    /\ ledger0 = <<Rec("watch?v=A", TRUE), NL, Rec("watch?v=B", FALSE), NL>>
    /\ "watch?v=B" \in Range(all_urls)
    /\ Downloaded = {"shorts/A"}
    /\ Len(ledger) = Len(ledger0) + 2

\* C4: a single run of pipeline_simple.main appends at most one record for
\* each distinct URL, also when the input lists a URL more than once.
C4_OneRecordPerUrl ==
    variant = "simple" =>
        \A u \in Urls : Appended(u, TRUE) + Appended(u, FALSE) <= 1

C7_AllDownloadsFail ==
    /\ ([](\A i \in Items : dl[i] # "ok")) => <>(pc \in {"exited", "returned"})
    /\ []((\A i \in Items : dl[i] # "ok") =>
            /\ \A i \in Items : proc[i] = "none"
            /\ successful = 0
            /\ pc = "exited" =>
                  /\ Len(ledger) = Len(ledger0) + 2 * Len(remaining_urls)
                  /\ \A i \in WorkItems :
                        /\ ledger[Len(ledger0) + 2 * i - 1] = Rec(UrlOf(i), FALSE)
                        /\ ledger[Len(ledger0) + 2 * i] = NL)

\* C7 witness: the run has exited and every download of a pass of at least
\* two URLs raised.
C7_Witness ==
    /\ pc = "exited"
    /\ Len(remaining_urls) >= 2
    /\ \A i \in WorkItems : dl[i] = "raised"

\* C8: once a WorkItem handed to the analysis stage is terminal, succeeded or
\* failed, its video file and its audio file no longer exist (stated for a
\* WorkItem that shares its video id with no other WorkItem of the pass).
C8_FilesGoneWhenTerminal ==
    \A i \in WorkItems :
        (/\ proc[i] \in ProcDone
         /\ \A j \in WorkItems \ {i} : VideoId(UrlOf(j)) # VideoId(UrlOf(i)))
        => /\ VideoId(UrlOf(i)) \notin video_files
           /\ VideoId(UrlOf(i)) \notin audio_files

\* C10: the Ledger is append-only during a run of either entry point: every
\* step that changes it adds exactly one complete newline-terminated record
\* at the end and leaves the earlier content as a prefix.
C10_AppendOnly ==
    [][ledger' # ledger =>
        /\ IsPrefix(ledger, ledger')
        /\ \E u \in Urls, ok \in BOOLEAN :
              ledger' = ledger \o <<Rec(u, ok), NL>>]_vars

\* C10 witness: pipeline_parallel.main has ended over a non-empty Ledger
\* after appending a download failure and the records of an analysis.
C10_Witness ==
    /\ variant = "parallel"
    /\ pc = "raised"
    /\ ledger0 # << >>
    /\ failed_downloads # << >>
    /\ processed_count >= 1
    /\ IsPrefix(ledger0, ledger)
    /\ Len(ledger) >= Len(ledger0) + 6


(***************************************************************************)
(* Successive runs of pipeline_simple.main over the same input; a run may  *)
(* be killed at any point, also inside the write of a record.              *)
(***************************************************************************)
CrashInputs == {q \in SeqsUpTo(Urls, MaxCrashInput) : NoDuplicates(q)}

InitCrash ==
    /\ variant = "simple"
    /\ all_urls \in CrashInputs
    /\ ledger = << >>
    /\ recording = FALSE
    /\ InitRun

\* the URLs whose record, line feed included, this run has written
WrittenThisRun(file) ==
    {file[k].url : k \in {j \in (Len(ledger0) + 1) .. (Len(file) - 1) :
                            file[j].t = "rec" /\ file[j + 1].t = "nl"}}

\* the process is gone and main is started again: nothing in memory
\* survives, the files do
NewProcess(file) ==
    /\ run < MaxRuns
    /\ run' = run + 1
    /\ written_earlier' = written_earlier \cup WrittenThisRun(file)
    /\ ledger' = file
    /\ ledger0' = file
    /\ pc' = "start"
    /\ completed_urls' = {}
    /\ remaining_urls' = << >>
    /\ download_idx' = 0
    /\ dl' = [i \in Items |-> "unsubmitted"]
    /\ proc' = [i \in Items |-> "none"]
    /\ pending_downloads' = {}
    /\ pending_processes' = {}
    /\ done_downloads' = {}
    /\ done_processes' = {}
    /\ successful' = 0
    /\ failed' = 0
    /\ processed_count' = 0
    /\ transcript' = [i \in Items |-> "unset"]
    /\ sound_description' = [i \in Items |-> "unset"]
    /\ errors' = << >>
    /\ UNCHANGED <<variant, all_urls, video_files, audio_files,
                   failed_downloads, save_idx, except_url, poolVars,
                   write_failed, toolVars>>

\* the run ends, by itself or killed between two writes, and main is run again
EndRun ==
    /\ pc # "start"
    /\ NewProcess(ledger)

\* the run is killed inside f.write of lines 229-230 or 255-256: a strict
\* prefix of the record's text has reached the file, or all of it but the
\* line feed
KillInWrite(i, whole) ==
    /\ \/ pc = "downloads" /\ i \in done_downloads
       \/ pc = "processes" /\ i \in done_processes
    /\ NewProcess(ledger \o
            <<IF whole
              THEN Rec(UrlOf(i), pc = "processes" /\ proc[i] = "succeeded")
              ELSE Part(UrlOf(i))>>)

NextCrash ==
    \/ NextSimple
    \/ EndRun
    \/ \E i \in Items, whole \in BOOLEAN : KillInWrite(i, whole)

SpecCrash == InitCrash /\ [][NextCrash]_vars

\* number of record texts of u anywhere in the file
RecordTexts(file, u) ==
    Cardinality({k \in 1 .. Len(file) : file[k].t = "rec" /\ file[k].url = u})

\* C9: over successive runs on the same duplicate-free input, killed at any
\* point, a URL whose record an earlier run wrote is not downloaded or
\* analyzed by a later run, and the Ledger never holds two records of a URL.
C9_CrashResume ==
    /\ Downloaded \cap written_earlier = {}
    /\ Analyzed \cap written_earlier = {}
    /\ \A u \in Urls : RecordTexts(ledger, u) <= 1

(***************************************************************************)
(* keyframe_extractor.extract_keyframes: the choice of the frame indices   *)
(* (lines 83-135).  The video is given by its frame count and the combined *)
(* score of each frame but the first (lines 54-75); find_peaks is given by *)
(* what it can return.                                                     *)
(***************************************************************************)
Min(a, b) == IF a < b THEN a ELSE b

ScoreLevels == 0 .. MaxScore

\* lines 95-99: the positions find_peaks can return over the smoothed
\* scores: never the first or the last sample, no two of them adjacent, and
\* none when every score is the same
PeakSets(scores) ==
    {P \in SUBSET {p \in 0 .. (Len(scores) - 1) : 0 < p /\ p < Len(scores) - 1} :
        /\ \A p \in P : (p + 1) \notin P
        /\ (P # {}) => \E a, b \in 1 .. Len(scores) : scores[a] # scores[b]}

\* lines 106-115: the first frame, the last frame, and the frame index
\* stored at each peak position (frame_scores[p]['idx'] is p + 1)
CandidateFrames(total, pk) == {0, total - 1} \cup {p + 1 : p \in pk}

\* lines 119-125: frame_scores[frame_idx] when that position exists, else 0
CandidateScore(scores, frame_idx) ==
    IF frame_idx < Len(scores) THEN scores[frame_idx + 1] ELSE 0

\* lines 128-129: the n best candidates; among equal scores the sort keeps
\* the iteration order of the set, which is not fixed
TopCandidates(cands, scores, n) ==
    {T \in SUBSET cands :
        /\ Cardinality(T) = Min(n, Cardinality(cands))
        /\ \A a \in T, b \in cands \ T :
              CandidateScore(scores, a) >= CandidateScore(scores, b)}

\* sorted(...) of line 129
RECURSIVE SortedSeq(_)
SortedSeq(S) ==
    IF S = {} THEN << >>
    ELSE LET m == CHOOSE x \in S : \A y \in S : x <= y
         IN  <<m>> \o SortedSeq(S \ {m})

\* lines 132-135: selected_indices[0] = 0 and selected_indices[-1] =
\* total_frames - 1 when they are missing
EnsureCoverage(sel, total) ==
    LET s1 == IF 0 \in Range(sel) THEN sel ELSE [sel EXCEPT ![1] = 0]
    IN  IF (total - 1) \in Range(s1) THEN s1
        ELSE [s1 EXCEPT ![Len(s1)] = total - 1]

\* line 85: np.linspace(0, total_frames - 1, num_frames, dtype=int)
Linspace(total, n) ==
    [j \in 1 .. n |-> IF n = 1 THEN 0 ELSE ((j - 1) * (total - 1)) \div (n - 1)]

\* a video and a request for keyframes
InitKeyframes ==
    /\ InitPool
    /\ recording = FALSE
    /\ PipeIdle
    /\ NoteIdle
    /\ RetryIdle
    /\ SeqIdle
    /\ WorkIdle
    /\ RateIdle
    /\ total_frames \in 1 .. MaxFrames
    /\ num_frames \in 1 .. MaxKeyframes
    /\ frame_scores \in [1 .. (total_frames - 1) -> ScoreLevels]
    /\ peaks \in PeakSets(frame_scores)
    /\ selected_indices = << >>
    /\ top_indices = << >>
    /\ kf_pc = "input"

\* lines 83-135
SelectKeyframes ==
    /\ kf_pc = "input"
    /\ kf_pc' = "selected"
    /\ IF frame_scores = << >>
       THEN /\ selected_indices' = Linspace(total_frames, num_frames)
            /\ top_indices' = << >>
       ELSE \E T \in TopCandidates(CandidateFrames(total_frames, peaks),
                                   frame_scores, num_frames) :
               /\ top_indices' = SortedSeq(T)
               /\ selected_indices' = EnsureCoverage(SortedSeq(T), total_frames)
    /\ UNCHANGED <<total_frames, num_frames, frame_scores, peaks, pipeVars,
                   poolVars, noteVars, retryVars, seqVars, workVars,
                   rateVars>>

NextKeyframes == SelectKeyframes

SpecKeyframes == InitKeyframes /\ [][NextKeyframes]_vars

\* C11: for a video of at least 2 frames and num_frames >= 2, the selected
\* indices include 0 and total_frames - 1, and there are
\* min(num_frames, total_frames) of them, whatever the peaks found.
C11_KeyframeBoundary ==
    (kf_pc = "selected" /\ total_frames >= 2 /\ num_frames >= 2) =>
        /\ 0 \in Range(selected_indices)
        /\ (total_frames - 1) \in Range(selected_indices)
        /\ Len(selected_indices) = Min(num_frames, total_frames)

(***************************************************************************)
(* retry_failed.py, run once a pipeline run is over                        *)
(***************************************************************************)
\* a collection that takes the URL of every record, failed or not
get_all_urls(file) ==
    [n \in 1 .. Len(SelectSeq(Lines(file), Parses)) |->
        SelectSeq(Lines(file), Parses)[n][1].url]

\* lines 18-24: the line parses, result.get('success', False) is false and
\* result['url'] exists
IsFailureLine(line) == Parses(line) /\ ~line[1].success

\* lines 9-26: get_failed_urls
get_failed_urls(file) ==
    [n \in 1 .. Len(SelectSeq(Lines(file), IsFailureLine)) |->
        SelectSeq(Lines(file), IsFailureLine)[n][1].url]

\* lines 42-100: main collects the failed URLs and, when there are some,
\* create_retry_csv (lines 29-39) writes them to retry_videos.csv
RetryMain ==
    /\ retry_pc = "idle"
    /\ Finished
    /\ IF get_failed_urls(ledger) = << >>
       THEN /\ retry_pc' = "no_failures"
            /\ UNCHANGED retry_csv
       ELSE /\ retry_pc' = "created"
            /\ retry_csv' = get_failed_urls(ledger)
    /\ UNCHANGED <<pipeVars, poolVars, noteVars, kfVars, seqVars, workVars,
                   rateVars>>

NextRetry ==
    \/ Next
    \/ RetryMain

SpecRetry == Init /\ [][NextRetry]_vars

\* the URLs of the whole-line records of the file with success false, in
\* the order of the file
RECURSIVE FailureUrlsUpTo(_, _)
FailureUrlsUpTo(file, k) ==
    IF k = 0 THEN << >>
    ELSE FailureUrlsUpTo(file, k - 1) \o
         (IF k \in WholeLineRecords(file) /\ ~file[k].success
          THEN <<file[k].url>> ELSE << >>)

\* u has a record with success true in the file
HasSuccessRecord(file, u) ==
    \E k \in WholeLineRecords(file) : file[k].url = u /\ file[k].success

C13_EmptyInput ==
    (variant = "simple" /\ all_urls = << >>) =>
        /\ pc \in {"start", "returned"}
        /\ ledger = ledger0
        /\ errors = << >>
        /\ remaining_urls = << >>
        /\ pending_downloads = {} /\ pending_processes = {}
        /\ \A i \in Items : dl[i] = "unsubmitted" /\ proc[i] = "none"
        /\ processed_count = 0 /\ successful = 0 /\ failed = 0

\* C13 witness: pipeline_simple.main has returned from a run over an empty
\* URL list and a Ledger that already held records.
C13_Witness ==
    /\ variant = "simple"
    /\ all_urls = << >>
    /\ pc = "returned"
    /\ ledger0 # << >>
    /\ ledger = ledger0

\* C14: a thread that sleeps inside get_key, waiting for the nearest window
\* reset, does not hold the pool lock, so that another thread can enter the
\* critical section during the wait.
C14_LockFreeWhileSleeping ==
    \A t \in Threads : tpc[t] = "sleeping" => lock # t

\* the downloads submitted to the download executor and not finished
InFlightDownloads == {i \in Items : dl[i] \in {"queued", "running"}}

\* C15: in pipeline_simple.main at most one download is in flight at any
\* time (one pending future, one thread inside download_video); while main
\* handles a finished download, which is when it extracts the audio, no
\* download is in flight; and at every test of the loop a download is
\* pending as long as URLs remain unsubmitted.
C15_OneDownloadAtATime ==
    variant = "simple" =>
        /\ Cardinality(pending_downloads) <= 1
        /\ Cardinality(InFlightDownloads) <= 1
        /\ InFlightDownloads \subseteq pending_downloads
        /\ done_downloads # {} => InFlightDownloads = {}
        /\ (pc = "loop_top" /\ download_idx < Len(remaining_urls)) =>
                pending_downloads # {}

\* C15 witness: the second download runs while the analysis of the first
\* WorkItem, whose audio has been extracted, is still running.
C15_Witness ==
    /\ variant = "simple"
    /\ pc = "loop_top"
    /\ dl[1] = "ok" /\ proc[1] \in ProcRunning
    /\ VideoId(UrlOf(1)) \in audio_files
    /\ dl[2] = "running"
    /\ pending_downloads = {2}

\* main handles the finished download of WorkItem i in this step
HandlesDownload(i) ==
    /\ variant = "simple"
    /\ pc = "downloads" /\ pc' = "downloads"
    /\ i \in done_downloads /\ i \notin done_downloads'

\* C16: the step of pipeline_simple.main that handles a finished download,
\* succeeded or failed, submits the next URL of the input order to the
\* download executor when one remains, whatever analyses are pending, and
\* leaves the pending analyses alone; for a failed download the same step
\* first appends a success=false record whose error text starts with
\* 'Download failed'.
C16_NextDownloadSubmitted ==
    [][\A i \in Items : HandlesDownload(i) =>
          /\ download_idx < Len(remaining_urls) =>
                /\ dl[download_idx + 1] = "unsubmitted"
                /\ dl'[download_idx + 1] = "queued"
                /\ pending_downloads' = {download_idx + 1}
                /\ download_idx' = download_idx + 1
          /\ pending_processes \subseteq pending_processes'
          /\ \A j \in pending_processes : proc'[j] = proc[j]
          /\ dl[i] = "raised" => proc'[i] = "none"
          /\ proc'[i] = "none" =>
                /\ ledger' = ledger \o <<Rec(UrlOf(i), FALSE), NL>>
                /\ errors' = Append(errors, "Download failed")
          /\ proc'[i] # "none" => ledger' = ledger]_vars

\* C16 witness: the second download has failed and been recorded as a
\* download failure, and the third URL is queued for download while the
\* analysis of the first WorkItem is still running.
C16_Witness ==
    /\ variant = "simple"
    /\ Len(remaining_urls) = 3
    /\ dl[1] = "ok" /\ proc[1] \in ProcRunning /\ 1 \in pending_processes
    /\ dl[2] = "raised"
    /\ dl[3] = "queued"
    /\ pending_downloads = {3}
    /\ Len(errors) >= 1 /\ errors[Len(errors)] = "Download failed"
    /\ ledger[Len(ledger) - 1] = Rec(UrlOf(2), FALSE)

\* main writes the result of the analysis of WorkItem i in this step
HandlesResult(i) ==
    /\ variant = "simple"
    /\ pc = "processes"
    /\ i \in pending_processes /\ i \notin pending_processes'

WriteRaisesForDownload(i) ==
    /\ variant = "simple"
    /\ pc = "downloads"
    /\ i \in done_downloads
    /\ dl[i] \in DlDone
    /\ done_downloads' = done_downloads \ {i}
    /\ pending_downloads' = pending_downloads \ {i}
    /\ write_failed' = write_failed \cup {i}
    /\ pc' = "raised"
    /\ UNCHANGED <<variant, all_urls, ledger, ledger0, completed_urls,
                   remaining_urls, download_idx, dl, proc, pending_processes,
                   done_processes, video_files, audio_files, successful,
                   failed, processed_count, failed_downloads, save_idx,
                   except_url, poolVars, crashVars, transcript,
                   sound_description, errors, toolVars>>

\* lines 244-256 and 270-272: the result is counted, the write of its
\* record raises, the except of line 270 counts a failure and the loop goes
\* on
WriteRaisesForResult(i) ==
    /\ variant = "simple"
    /\ pc = "processes"
    /\ i \in done_processes
    /\ done_processes' = done_processes \ {i}
    /\ pending_processes' = pending_processes \ {i}
    /\ successful' = IF ResultSuccess(i) THEN successful + 1 ELSE successful
    /\ failed' = IF ResultSuccess(i) THEN failed + 1 ELSE failed + 2
    /\ transcript' = Dropped(transcript, i)
    /\ sound_description' = Dropped(sound_description, i)
    /\ write_failed' = write_failed \cup {i}
    /\ UNCHANGED <<variant, all_urls, ledger, ledger0, pc, completed_urls,
                   remaining_urls, download_idx, dl, proc, pending_downloads,
                   done_downloads, video_files, audio_files, processed_count,
                   failed_downloads, save_idx, except_url, poolVars,
                   crashVars, errors, toolVars>>

InitWriteFail ==
    /\ variant = "simple"
    /\ all_urls \in InputLists
    /\ ledger = << >>
    /\ recording = FALSE
    /\ InitRun

NextWriteFail ==
    \/ NextSimple
    \/ \E i \in Items : WriteRaisesForDownload(i)
    \/ \E i \in Items : WriteRaisesForResult(i)

SpecWriteFail == InitWriteFail /\ [][NextWriteFail]_vars

\* C18: when the append of a record raises, for the failure record of a
\* download as for the result record of an analysis, the run terminates
\* with that error: main does not go on with the WorkItem unrecorded.
C18_WriteFailureEndsRun ==
    write_failed # {} => pc = "raised"

(***************************************************************************)
(* pipeline.main: one video after the other, process_video (lines 18-127)  *)
(* called with the key the loop has picked.                                *)
(***************************************************************************)
\* what pipeline.main leaves alone
seqFrame == <<variant, all_urls, ledger0, pc, completed_urls, remaining_urls,
              download_idx, dl, proc, pending_downloads, pending_processes,
              done_downloads, done_processes, video_files, audio_files,
              processed_count, failed_downloads, save_idx, except_url,
              crashVars, poolVars, transcript, sound_description,
              write_failed, kfVars, retryVars, workVars, rateVars>>

\* result['error'] of process_video: None on success; else str(e) of what
\* its except (line 123) caught: a rejection by the analyzer for rate
\* limiting ("429 ..."), or another error
ResultErrors == {"None", "429", "error"}

\* str(e) of an OSError raised by the write of a record
WriteErrors == {"Disk quota exceeded", "No space left on device"}

\* line 306: "429" in str(e) or "quota" in str(e).lower() or "rate" in ...
IsRateLimitText(text) == text \in {"429", "Disk quota exceeded"}

\* lines 308-309: the next key of the list
NextKey(k) == (k + 1) % NumKeys

\* the video after this one, or the end of the for loop of line 240
SeqAdvance ==
    /\ seq_idx' = seq_idx + 1
    /\ seq_pc' = IF seq_idx + 1 < Len(all_urls) THEN "loop" ELSE "done"

InitSequential ==
    /\ variant = "sequential"
    /\ all_urls \in InputLists
    /\ ledger = << >>
    /\ recording = FALSE
    /\ InitRun

\* lines 180-237: the URLs are loaded; main returns when there is none
SeqStart ==
    /\ variant = "sequential"
    /\ seq_pc = "idle"
    /\ seq_pc' = IF all_urls = << >> THEN "done" ELSE "loop"
    /\ UNCHANGED <<seq_idx, seq_key, seq_calls, ledger, errors, successful,
                   failed, seqFrame>>

\* lines 240-302: the rate-limit bookkeeping of lines 247-289 leaves some
\* key k current (which one depends on the clock); process_video is called
\* with it and returns its result, which is counted and appended
SeqVideo(k, err) ==
    /\ seq_pc = "loop"
    /\ seq_key' = k
    /\ seq_calls' = Append(seq_calls, <<seq_idx, k>>)
    /\ successful' = IF err = "None" THEN successful + 1 ELSE successful
    /\ failed' = IF err = "None" THEN failed ELSE failed + 1
    /\ ledger' = AppendRecord(ledger, all_urls[seq_idx + 1], err = "None")
    /\ errors' = Append(errors, err)
    /\ SeqAdvance
    /\ UNCHANGED seqFrame

\* lines 291-309 and 336-342: as above, but the write of line 301 raises;
\* when the text of the error passes the test of line 306 the next key is
\* taken and the video is tried again, else an error record is appended
SeqVideoWriteRaises(k, err, text) ==
    /\ seq_pc = "loop"
    /\ seq_calls' = Append(seq_calls, <<seq_idx, k>>)
    /\ successful' = IF err = "None" THEN successful + 1 ELSE successful
    /\ IF IsRateLimitText(text)
       THEN /\ seq_key' = NextKey(k)
            /\ seq_pc' = "retry"
            /\ failed' = IF err = "None" THEN failed ELSE failed + 1
            /\ UNCHANGED <<seq_idx, ledger, errors>>
       ELSE /\ seq_key' = k
            /\ failed' = IF err = "None" THEN failed + 1 ELSE failed + 2
            /\ ledger' = AppendRecord(ledger, all_urls[seq_idx + 1], FALSE)
            /\ errors' = Append(errors, text)
            /\ SeqAdvance
    /\ UNCHANGED seqFrame

\* lines 316-335: process_video is called again with the rotated key; its
\* result is counted and appended, or, when that write raises too
\* (again), an error record is
SeqRetry(err, again) ==
    /\ seq_pc = "retry"
    /\ seq_calls' = Append(seq_calls, <<seq_idx, seq_key>>)
    /\ successful' = IF err = "None" THEN successful + 1 ELSE successful
    /\ failed' = (IF err = "None" THEN failed ELSE failed + 1)
                  + (IF again THEN 1 ELSE 0)
    /\ ledger' = AppendRecord(ledger, all_urls[seq_idx + 1],
                              err = "None" /\ ~again)
    /\ errors' = Append(errors, IF again THEN "Disk quota exceeded" ELSE err)
    /\ SeqAdvance
    /\ UNCHANGED <<seq_key, seqFrame>>

NextSequential ==
    \/ SeqStart
    \/ \E k \in Keys, err \in ResultErrors : SeqVideo(k, err)
    \/ \E k \in Keys, err \in ResultErrors, text \in WriteErrors :
          SeqVideoWriteRaises(k, err, text)
    \/ \E err \in ResultErrors, again \in BOOLEAN : SeqRetry(err, again)

SpecSequential == InitSequential /\ [][NextSequential]_vars

\* the keys of the calls of process_video for the video at idx, in order
RECURSIVE KeysUsedFor(_, _)
KeysUsedFor(calls, idx) ==
    IF calls = << >> THEN << >>
    ELSE (IF Head(calls)[1] = idx THEN <<Head(calls)[2]>> ELSE << >>)
         \o KeysUsedFor(Tail(calls), idx)

\* C19: a video is recorded as failed with the analyzer's rate-limit error
\* only after its processing was tried again, exactly once, with a key
\* different from the rejected one.
C19_RateLimitRetriedOnce ==
    \A n \in 1 .. Len(errors) :
        errors[n] = "429" =>
            /\ Len(KeysUsedFor(seq_calls, n - 1)) = 2
            /\ KeysUsedFor(seq_calls, n - 1)[1] # KeysUsedFor(seq_calls, n - 1)[2]

(***************************************************************************)
(* A download that never returns.  download_video (yt-dlp) is called with  *)
(* no timeout; pipeline_simple.main polls future.done() (line 197) and     *)
(* pipeline_parallel waits in as_completed(futures) (line 263), whose      *)
(* future.result(timeout=120) is applied to futures that are done.         *)
(***************************************************************************)
\* the call of download_video for i blocks for ever
DownloadHangs(i) ==
    /\ dl[i] = "running"
    /\ dl' = [dl EXCEPT ![i] = "hung"]
    /\ UNCHANGED <<variant, all_urls, ledger, ledger0, pc, completed_urls,
                   remaining_urls, download_idx, proc, pending_downloads,
                   pending_processes, done_downloads, done_processes,
                   video_files, audio_files, successful, failed,
                   processed_count, failed_downloads, save_idx, except_url,
                   poolVars, crashVars, sideVars>>

InitStuck ==
    /\ variant \in Variants
    /\ all_urls \in InputLists
    /\ ledger = << >>
    /\ recording = FALSE
    /\ InitRun

\* the steps of the main thread of pipeline_parallel.main
ParMainStep ==
    \/ ParStart
    \/ ParBatchDone
    \/ ParSaveFailed
    \/ ParSubmitAll
    \/ \E i \in Items : ParCollect(i)
    \/ ParCollectExcept
    \/ ParSummary

NextStuck ==
    \/ Next
    \/ \E i \in Items : DownloadHangs(i)

\* the main thread keeps running, the executors start what is queued, every
\* analysis step ends, and a download returns, raises or hangs
FairStuck ==
    /\ InitStuck
    /\ [][NextStuck]_vars
    /\ WF_vars(MainStep)
    /\ WF_vars(ParMainStep)
    /\ \A i \in Items :
          /\ SF_vars(DownloadStart(i))
          /\ WF_vars(DownloadReturns(i) \/ DownloadRaises(i) \/ DownloadHangs(i))
          /\ SF_vars(ProcStart(i))
          /\ WF_vars(ProcAdvance(i) \/ ProcSucceeds(i) \/ ProcRaises(i))

\* C20: a download that never returns does not keep the run from ending:
\* once a download hangs, the run still terminates.
C20_StuckDownloadDoesNotHalt ==
    (\E i \in Items : dl[i] = "hung") ~> Finished

(***************************************************************************)
(* The analysis pool of pipeline_simple.main: ThreadPoolExecutor.submit    *)
(* (line 216) puts the call on the executor's unbounded queue and returns. *)
(***************************************************************************)
\* one WorkItem more than the analysis pool has workers
SaturatingInput ==
    [i \in 1 .. (NumKeys * 2 + 1) |->
        IF i % 2 = 1 THEN "watch?v=A" ELSE "watch?v=B"]

InitSaturated ==
    /\ variant = "simple"
    /\ all_urls = SaturatingInput
    /\ ledger = << >>
    /\ recording = FALSE
    /\ InitRun

SpecSaturated == InitSaturated /\ [][NextSimple]_vars

\* the WorkItems handed to the analysis pool that have not finished
InAnalysisPool == {i \in Items : proc[i] \in {"queued"} \cup ProcRunning}

\* C21: the WorkItems handed to the analysis pool and not yet finished,
\* running or waiting for a worker, never outnumber the workers of the pool.
C21_Backpressure == Cardinality(InAnalysisPool) <= ProcessWorkers

(***************************************************************************)
(* The files of a WorkItem: download_video writes downloads/<id>.<ext>     *)
(* (video_downloader.py line 22), the audio is extracted next to it, and   *)
(* the analysis deletes both (pipeline_simple.py lines 107-114).           *)
(***************************************************************************)
\* i and j are two WorkItems whose files have the same paths
SamePaths(i, j) == i # j /\ VideoId(UrlOf(i)) = VideoId(UrlOf(j))

\* the download of j writes its video file, or the analysis of j reads its
\* files and deletes them at its end
TouchesFiles(j) == dl[j] = "running" \/ proc[j] \in ProcRunning

\* C22: while a WorkItem is analyzing its video and audio files, no other
\* WorkItem downloads to, analyzes or cleans up the same paths.
C22_ExclusiveMediaAssets ==
    \A i \in WorkItems : \A j \in WorkItems :
        (SamePaths(i, j) /\ proc[i] \in ProcRunning) => ~TouchesFiles(j)

\* i is a WorkItem of pipeline_parallel.main whose analysis future has been
\* taken from as_completed and whose pass of the loop of line 384 is over
Collected(i) ==
    /\ variant = "parallel"
    /\ pc = "collect"
    /\ InUrlToPaths(i)
    /\ i \notin pending_processes

\* C23: in pipeline_parallel.main a WorkItem whose analysis future has
\* completed has exactly one record appended for its URL in this run, and
\* that record carries the outcome of its analysis.
C23_CollectedOnce ==
    NoDuplicates(remaining_urls) =>
        \A i \in WorkItems :
            Collected(i) =>
                /\ Appended(UrlOf(i), TRUE) + Appended(UrlOf(i), FALSE) = 1
                /\ Appended(UrlOf(i), ResultSuccess(i)) = 1

\* thread t leaves get_key with a key in this step
Issues(t) == tpc[t] = "in_lock" /\ tpc'[t] = "idle"

\* C24: get_key scans from the index after the last-issued key: when a key
\* has been issued before and every key has capacity in its running window,
\* the key a call returns is the one after the last-issued key, so
\* consecutive calls return distinct keys.
C24_RoundRobinAfterLastIssued ==
    [][\A t \in Threads :
          (/\ Issues(t)
           /\ \E s \in Threads : last_key[s] # -1
           /\ \A k \in Keys : /\ HasCapacity(key_usage[k])
                               /\ ~WindowExpired(key_usage[k]))
          => last_key'[t] = (current_key_index + 1) % NumKeys]_vars

(***************************************************************************)
(* One analysis, line by line: process_single_video_simple                 *)
(* (pipeline_simple.py lines 68-119); process_single_video                 *)
(* (pipeline_parallel.py lines 56-119) has the same steps.                 *)
(***************************************************************************)
workFrame == <<pipeVars, poolVars, noteVars, kfVars, retryVars, seqVars,
               rateVars>>

Logged(w, event) == [w_log EXCEPT ![w] = Append(@, event)]

\* a wait that is over when one of the two futures is done
AnySubDone(w) == \E c \in SubCalls : w_sub[w][c] = "done"

\* lines 93-94: transcript_future.result() and audio_future.result() have
\* both returned
BothSubsDone(w) == \A c \in SubCalls : w_sub[w][c] = "done"

\* the analysis pool starts the call
WorkStart(w) ==
    /\ w_pc[w] = "idle"
    /\ w_pc' = [w_pc EXCEPT ![w] = "keyframes"]
    /\ UNCHANGED <<w_sub, w_log, workFrame>>

\* line 82: extract_keyframes returns, or raises into the except of line 116
WorkKeyframes(w, ok) ==
    /\ w_pc[w] = "keyframes"
    /\ w_pc' = [w_pc EXCEPT ![w] = IF ok THEN "transcript_key" ELSE "failed"]
    /\ w_log' = IF ok THEN Logged(w, "keyframes") ELSE w_log
    /\ UNCHANGED <<w_sub, workFrame>>

\* lines 85, 86 and 100: key_pool.get_key() returns
WorkGetKey(w) ==
    /\ w_pc[w] \in {"transcript_key", "audio_key", "analysis_key"}
    /\ w_pc' = [w_pc EXCEPT ![w] =
                    CASE w_pc[w] = "transcript_key" -> "audio_key"
                      [] w_pc[w] = "audio_key" -> "submit"
                      [] OTHER -> "analysis"]
    /\ w_log' = Logged(w, "get_key")
    /\ UNCHANGED <<w_sub, workFrame>>

\* lines 89-91: the two sub-calls are submitted to an executor of two workers
WorkSubmit(w) ==
    /\ w_pc[w] = "submit"
    /\ w_pc' = [w_pc EXCEPT ![w] = "wait"]
    /\ w_sub' = [w_sub EXCEPT ![w] = [c \in SubCalls |-> "running"]]
    /\ UNCHANGED <<w_log, workFrame>>

\* get_transcript_from_audio or analyze_audio_with_gemini_direct returns
\* (neither lets an exception out)
WorkSubDone(w, c) ==
    /\ w_sub[w][c] = "running"
    /\ w_sub' = [w_sub EXCEPT ![w][c] = "done"]
    /\ w_log' = Logged(w, c)
    /\ UNCHANGED <<w_pc, workFrame>>

\* lines 93-98: both results are taken and stored
WorkResults(w) ==
    /\ w_pc[w] = "wait"
    /\ BothSubsDone(w)
    /\ w_pc' = [w_pc EXCEPT ![w] = "analysis_key"]
    /\ UNCHANGED <<w_sub, w_log, workFrame>>

\* lines 101-105: analyze_video_content returns, or raises into the except
\* of line 116
WorkAnalysis(w, ok) ==
    /\ w_pc[w] = "analysis"
    /\ w_pc' = [w_pc EXCEPT ![w] = IF ok THEN "succeeded" ELSE "failed"]
    /\ w_log' = Logged(w, "analysis")
    /\ UNCHANGED <<w_sub, workFrame>>

InitWork ==
    /\ InitPool
    /\ recording = FALSE
    /\ PipeIdle
    /\ SideIdle

NextWork ==
    \/ \E w \in Analyses : WorkStart(w)
    \/ \E w \in Analyses, ok \in BOOLEAN : WorkKeyframes(w, ok)
    \/ \E w \in Analyses : WorkGetKey(w)
    \/ \E w \in Analyses : WorkSubmit(w)
    \/ \E w \in Analyses, c \in SubCalls : WorkSubDone(w, c)
    \/ \E w \in Analyses : WorkResults(w)
    \/ \E w \in Analyses, ok \in BOOLEAN : WorkAnalysis(w, ok)

SpecWork == InitWork /\ [][NextWork]_vars

\* the positions of event in a log
Positions(log, event) == {n \in 1 .. Len(log) : log[n] = event}

\* position n of the log is the third get_key, the one of the final call
IsThirdKey(log, n) ==
    /\ log[n] = "get_key"
    /\ Cardinality({m \in 1 .. n : log[m] = "get_key"}) = 3

\* C25: within an analysis the keyframe extraction completes before any key
\* is acquired or any analyzer call completes; the transcript call and the
\* audio-description call both complete before the key of the final call is
\* acquired; an analysis whose keyframe extraction fails acquires no key.
C25_AnalysisOrder ==
    \A w \in Analyses :
        /\ w_log[w] # << >> => w_log[w][1] = "keyframes"
        /\ \A n \in 1 .. Len(w_log[w]) :
              IsThirdKey(w_log[w], n) =>
                  \A c \in SubCalls : \E m \in 1 .. (n - 1) : w_log[w][m] = c
        /\ \A n \in Positions(w_log[w], "analysis") :
              \E m \in 1 .. (n - 1) : IsThirdKey(w_log[w], m)
        /\ (w_pc[w] = "failed" /\ Positions(w_log[w], "keyframes") = {})
              => Positions(w_log[w], "get_key") = {}

\* one analysis has run to its end with its three keys, another has failed
\* in its keyframe extraction
C25_Witness ==
    \E w \in Analyses, x \in Analyses :
        /\ w_pc[w] = "succeeded"
        /\ Cardinality(Positions(w_log[w], "get_key")) = 3
        /\ w_pc[x] = "failed"
        /\ w_log[x] = << >>

(***************************************************************************)
(* The key bookkeeping of pipeline.main (lines 201-209 and 247-293), with  *)
(* the clock in ticks: 60 seconds are Window ticks.  The writes of the     *)
(* records succeed here.                                                   *)
(***************************************************************************)
\* line 204: CALLS_PER_MINUTE_PER_KEY
CALLS_PER_MINUTE_PER_KEY == 10

\* line 205: CALLS_PER_VIDEO
CALLS_PER_VIDEO == 4

rateFrame == <<variant, all_urls, ledger0, pc, completed_urls, remaining_urls,
               download_idx, dl, proc, pending_downloads, pending_processes,
               done_downloads, done_processes, video_files, audio_files,
               processed_count, failed_downloads, save_idx, except_url,
               crashVars, poolVars, transcript, sound_description,
               write_failed, kfVars, retryVars, workVars, seq_calls,
               successful, failed>>

\* elapsed >= 60 for an entry of minute_start_time
MinuteOver(start) == start >= Window

\* lines 253-273: the scan for another key from offset i on; returns whether
\* one was found, which, and the two dicts after the reset the scan may make
RECURSIVE RotateKey(_, _, _, _)
RotateKey(cur, i, calls, start) ==
    IF i = NumKeys
    THEN [found |-> FALSE, key |-> cur, calls |-> calls, start |-> start]
    ELSE LET check_key_index == (cur + i + 1) % NumKeys
         IN  IF start[check_key_index] = -1
             THEN [found |-> TRUE, key |-> check_key_index,
                   calls |-> calls, start |-> start]
             ELSE IF MinuteOver(start[check_key_index])
             THEN [found |-> TRUE, key |-> check_key_index,
                   calls |-> [calls EXCEPT ![check_key_index] = 0],
                   start |-> [start EXCEPT ![check_key_index] = 0]]
             ELSE IF calls[check_key_index] + CALLS_PER_VIDEO
                        <= CALLS_PER_MINUTE_PER_KEY
             THEN [found |-> TRUE, key |-> check_key_index,
                   calls |-> calls, start |-> start]
             ELSE RotateKey(cur, i + 1, calls, start)

\* time.sleep(wait_time) of line 279: d ticks pass for every entry
Elapse(start, d) ==
    [k \in Keys |->
        IF start[k] = -1 THEN -1
        ELSE IF start[k] + d > Window THEN Window ELSE start[k] + d]

\* lines 248-250: the current key has an entry, elapsed < 60 and the video
\* would take it over its limit
MustRotate(k) ==
    /\ minute_start_time[k] # -1
    /\ ~MinuteOver(minute_start_time[k])
    /\ calls_this_minute[k] + CALLS_PER_VIDEO > CALLS_PER_MINUTE_PER_KEY

\* lines 247-289: the key for the next video is settled
RateSelect ==
    /\ variant = "sequential"
    /\ seq_pc = "loop"
    /\ seq_pc' = "call"
    /\ LET r == IF MustRotate(seq_key)
                THEN RotateKey(seq_key, 0, calls_this_minute, minute_start_time)
                ELSE [found |-> TRUE, key |-> seq_key,
                      calls |-> calls_this_minute, start |-> minute_start_time]
           \* lines 275-281: no key found, sleep until the current one resets
           slept == Elapse(r.start, Window - r.start[seq_key])
           calls1 == IF r.found THEN r.calls
                     ELSE [r.calls EXCEPT ![seq_key] = 0]
           start1 == IF r.found THEN r.start
                     ELSE [slept EXCEPT ![seq_key] = 0]
       IN  /\ seq_key' = r.key
           \* lines 284-286: a key without an entry gets one
           /\ calls_this_minute' =
                 IF start1[r.key] = -1 THEN [calls1 EXCEPT ![r.key] = 0]
                 ELSE calls1
           /\ minute_start_time' =
                 IF start1[r.key] = -1 THEN [start1 EXCEPT ![r.key] = 0]
                 ELSE start1
    /\ UNCHANGED <<seq_idx, ledger, errors, rateFrame>>

\* lines 291-302: process_video has returned; its calls are charged to the
\* key and its record is appended
RateCharge(err) ==
    /\ seq_pc = "call"
    /\ calls_this_minute' =
          [calls_this_minute EXCEPT ![seq_key] = @ + CALLS_PER_VIDEO]
    /\ ledger' = AppendRecord(ledger, all_urls[seq_idx + 1], err = "None")
    /\ errors' = Append(errors, err)
    /\ SeqAdvance
    /\ UNCHANGED <<seq_key, minute_start_time, rateFrame>>

\* one tick passes: while a video is processed or between two videos
RateTick ==
    /\ variant = "sequential"
    /\ seq_pc \in {"loop", "call"}
    /\ \E k \in Keys : minute_start_time[k] \notin {-1, Window}
    /\ minute_start_time' = Elapse(minute_start_time, 1)
    /\ UNCHANGED <<calls_this_minute, seq_pc, seq_idx, seq_key, ledger,
                   errors, rateFrame>>

InitRate ==
    /\ variant = "sequential"
    /\ all_urls \in {q \in SeqsUpTo({"watch?v=A"}, MaxVideos) : q # << >>}
    /\ ledger = << >>
    /\ recording = FALSE
    /\ InitRun

NextRate ==
    \/ SeqStart
    \/ RateSelect
    \/ \E err \in ResultErrors : RateCharge(err)
    \/ RateTick

SpecRate == InitRate /\ [][NextRate]_vars

\* C26: no key is charged more than CALLS_PER_MINUTE_PER_KEY calls, and the
\* key settled for a video is in a window that has not expired: a key
\* whose window has expired has its counter and window start reset before
\* it is used for another video.
C26_SequentialKeyLimit ==
    /\ [](\A k \in Keys : calls_this_minute[k] <= CALLS_PER_MINUTE_PER_KEY)
    /\ [][(seq_pc = "loop" /\ seq_pc' = "call")
             => ~MinuteOver(minute_start_time'[seq_key'])]_vars

(***************************************************************************)
(* extract_keyframes: what the selection keeps                             *)
(***************************************************************************)
\* the adaptive selection of lines 86-135 has run
AdaptiveSelected == kf_pc = "selected" /\ frame_scores # << >>

\* the score pass 1 computed for frame f itself: the entry of frame_scores
\* with 'idx' = f (lines 69-76); frame 0 has no predecessor and no entry
OwnScore(scores, f) == IF f \in 1 .. Len(scores) THEN scores[f] ELSE 0

\* C27: when the first or the last frame is not among the top candidates,
\* it takes the place of the lowest-scoring kept candidate and every other
\* kept candidate stays selected (for num_frames >= 2, so that both fit).
C27_BoundaryReplacesLowest ==
    (AdaptiveSelected /\ num_frames >= 2) =>
        LET kept == Range(top_indices)
            sel == Range(selected_indices)
            missing == {0, total_frames - 1} \ kept
        IN  /\ missing \subseteq sel
            /\ Cardinality(kept \ sel) = Cardinality(missing)
            /\ \A d \in kept \ sel : \A a \in kept \cap sel :
                  CandidateScore(frame_scores, d) <= CandidateScore(frame_scores, a)

\* C28: the top candidates are those whose own scores are highest: no
\* candidate left out has a higher own score than a candidate kept.
C28_RankedByOwnScore ==
    AdaptiveSelected =>
        \A a \in Range(top_indices) :
            \A b \in CandidateFrames(total_frames, peaks) \ Range(top_indices) :
                OwnScore(frame_scores, a) >= OwnScore(frame_scores, b)

\* C29: with fewer than 2 frames there is no score, and the fallback selects
\* min(num_frames, total_frames) indices, all distinct and all in
\* 0 .. total_frames - 1.
C29_FallbackSampling ==
    (kf_pc = "selected" /\ frame_scores = << >>) =>
        /\ Len(selected_indices) = Min(num_frames, total_frames)
        /\ NoDuplicates(selected_indices)
        /\ Range(selected_indices) \subseteq 0 .. (total_frames - 1)

(***************************************************************************)
(* The counters of pipeline_simple.main                                    *)
(***************************************************************************)
\* the records appended by this run whose success flag is ok
AppendedRecords(ok) ==
    {k \in (Len(ledger0) + 1) .. Len(ledger) :
        ledger[k].t = "rec" /\ ledger[k].success = ok}

\* C30: in pipeline_simple.main successful counts the success records and
\* failed the failure records appended by the run, so that every WorkItem
\* is counted once, and at exit the two add up to the URLs of the pass.
C30_CountersMatchLedger ==
    variant = "simple" =>
        /\ successful = Cardinality(AppendedRecords(TRUE))
        /\ failed = Cardinality(AppendedRecords(FALSE))
        /\ pc = "exited" => successful + failed = Len(remaining_urls)

=============================================================================
